---- MODULE Spec2Model ----
(***************************************************************************)
(* Model of package errorlogger (skeptycal/errorlogger): the switchable    *)
(* error function (Enable / Disable / Err), the active path yesErr with    *)
(* its error wrapping, the configuration setters and the constructors.     *)
(*                                                                         *)
(* An error value is modelled as its Unwrap chain: a sequence of nodes,    *)
(* outermost first; the nil error is the empty sequence.  A node carries   *)
(* its dynamic type k, an identity id (0 for nodes allocated by            *)
(* errors.Wrap, which are never among the inputs) and its own message.     *)
(***************************************************************************)
EXTENDS Integers, Sequences, FiniteSets, TLC

VARIABLES
    el,        \* a constructed instance (*errorLogger)
    hist,      \* the calls completed, oldest first
    ctor,      \* the constructor call that built el
    Log,       \* the process-wide default instance
    log,       \* the logrus logger every instance points to
    last,      \* the last call that went through the package-level state
    levelSet,  \* whether SetLogLevel has been called
    run        \* two goroutines on el: their positions, what Err fetched

vars == <<el, hist, ctor, Log, log, last, levelSet, run>>

\* The package-level state, untouched by calls on a constructed instance.
pkgVars == <<Log, log, last, levelSet>>

\* Longest sequence of operations applied to an instance.
MaxHist == 3

-----------------------------------------------------------------------------
(* Error values                                                            *)

NIL == <<>>

\* The nil value of a function-typed field.
NilFunc == "nil"

\* errors.New("fake")
errFake == <<[k |-> "errorString", id |-> 1, msg |-> "fake"]>>

\* os.NewSyscallError("fake syscall error", errors.New("fake syscall error"))
fakeSysCallError ==
    << [k |-> "SyscallError", id |-> 2, msg |-> "fake syscall error"],
       [k |-> "errorString", id |-> 3, msg |-> "fake syscall error"] >>

\* errors.New(""): an error whose message is the empty string.
errEmpty == <<[k |-> "errorString", id |-> 4, msg |-> ""]>>

\* fmt.Errorf("open: %w", fakeSysCallError): an error that is not the
\* template but has it in its chain.
errChained == <<[k |-> "wrapError", id |-> 5, msg |-> "open"]>> \o fakeSysCallError

\* err.Error(): the message of a non-nil error.
RECURSIVE ErrorMsg(_)
ErrorMsg(err) ==
    LET n == Head(err) IN
    CASE n.k = "errorString" -> n.msg
      [] n.k = "withStack"   -> ErrorMsg(Tail(err))
      [] OTHER               -> n.msg \o ": " \o ErrorMsg(Tail(err))

\* github.com/pkg/errors Wrap(err, message): nil for a nil err, otherwise
\* a withStack over a withMessage over err.
Wrap(err, message) ==
    IF err = NIL THEN NIL
    ELSE << [k |-> "withStack", id |-> 0, msg |-> ""],
            [k |-> "withMessage", id |-> 0, msg |-> message] >> \o err

\* errors.Is(err, target) of the standard library: some error of err's
\* chain is target itself.
RECURSIVE Is(_, _)
Is(err, target) ==
    IF err = NIL \/ target = NIL THEN err = target
    ELSE \/ err = target
         \/ (Tail(err) # NIL /\ Is(Tail(err), target))

-----------------------------------------------------------------------------
(* The errorLogger struct and its methods                                  *)

\* The zero value &errorLogger{}.
errorLogger ==
    [enabled |-> FALSE, wrap |-> NIL, errFunc |-> NilFunc, logFunc |-> NilFunc]

\* Mutant: the flag is cleared but the no-op function is not installed.
Disable_FlagOnly(e) == [e EXCEPT !.enabled = FALSE]

Disable(e) == [e EXCEPT !.enabled = FALSE, !.errFunc = "noErr"]

\* Mutant: Enable flips the switch instead of setting it.
Enable_Toggle(e) ==
    IF e.enabled
    THEN [e EXCEPT !.enabled = FALSE, !.errFunc = "noErr"]
    ELSE [e EXCEPT !.enabled = TRUE, !.errFunc = "yesErr"]

Enable(e) == [e EXCEPT !.enabled = TRUE, !.errFunc = "yesErr"]

SetErrorWrap(e, wrap) == [e EXCEPT !.wrap = wrap]

\* Mutant: the log function is set only where none is installed yet.
SetLoggerFunc_OnlyIfUnset(e, fn) ==
    IF e.logFunc = NilFunc THEN [e EXCEPT !.logFunc = fn] ELSE e

SetLoggerFunc(e, fn) == [e EXCEPT !.logFunc = fn]

\* The outcome of a call: the value returned, whether the call panicked
\* instead of returning, and the log-function calls it made.
Returned(err, calls) == [ret |-> err, panicked |-> FALSE, calls |-> calls]

\* A call of a nil function value: a run-time panic, nothing returned.
Panicked == [ret |-> NIL, panicked |-> TRUE, calls |-> <<>>]

noErr(e, err) == Returned(err, <<>>)

\* Mutant: the nil check is missing, so a nil error is logged too.
yesErr_NoNilCheck(e, err) ==
    LET err2 == IF e.wrap # NIL THEN Wrap(err, ErrorMsg(e.wrap)) ELSE err
    IN IF e.logFunc = NilFunc
       THEN Panicked
       ELSE Returned(err2, <<[fn |-> e.logFunc, args |-> <<err2>>]>>)

\* Mutant: the error is wrapped in the template itself (as %w would),
\* so the template is part of the chain of the processed error.
yesErr_TemplateInChain(e, err) ==
    IF err # NIL
    THEN LET err2 == IF e.wrap # NIL
                     THEN <<[k |-> "wrapError", id |-> 0,
                             msg |-> ErrorMsg(err)]>> \o e.wrap
                     ELSE err
         IN IF e.logFunc = NilFunc
            THEN Panicked
            ELSE Returned(err2, <<[fn |-> e.logFunc, args |-> <<err2>>]>>)
    ELSE Returned(err, <<>>)

yesErr(e, err) ==
    IF err # NIL
    THEN LET err2 == IF e.wrap # NIL THEN Wrap(err, ErrorMsg(e.wrap)) ELSE err
         IN IF e.logFunc = NilFunc
            THEN Panicked
            ELSE Returned(err2, <<[fn |-> e.logFunc, args |-> <<err2>>]>>)
    ELSE Returned(err, <<>>)

\* Err that takes an unset error function for the disabled one.
Err_UnsetIsNoErr(e, err) ==
    CASE e.errFunc = "yesErr" -> yesErr(e, err)
      [] OTHER                -> noErr(e, err)

Err(e, err) ==
    CASE e.errFunc = "noErr"  -> noErr(e, err)
      [] e.errFunc = "yesErr" -> yesErr(e, err)
      [] OTHER                -> Panicked

-----------------------------------------------------------------------------
(* Constructors                                                            *)

defaultEnabled == TRUE

defaultLogFunc == "log.Error"

defaultErrWrap == NIL

NewWithOptions(enabled, fn, wrap) ==
    LET e1 == IF enabled THEN Enable(errorLogger) ELSE Disable(errorLogger)
        e2 == SetLoggerFunc(e1, fn)
    IN SetErrorWrap(e2, wrap)

New == NewWithOptions(defaultEnabled, defaultLogFunc, defaultErrWrap)

-----------------------------------------------------------------------------
(* Inputs                                                                  *)

\* Errors handed to Err.
Errors == {NIL, errFake, fakeSysCallError, errChained}

\* Wrap templates handed to SetErrorWrap and to the constructor.
Templates == {NIL, fakeSysCallError, errEmpty}

\* Log functions handed to SetLoggerFunc and to the constructor.
LogFuncs == {NilFunc, defaultLogFunc, "stub"}

-----------------------------------------------------------------------------
(* The logging collaborator: levels, the shared logger, level parsing      *)

PanicLevel == 0
FatalLevel == 1
ErrorLevel == 2
WarnLevel == 3
InfoLevel == 4
DebugLevel == 5
TraceLevel == 6

\* Mutant: the default level is the one the comment on log names.
defaultLogLevel_Error == ErrorLevel

defaultLogLevel == InfoLevel

\* The logger built at package initialisation; NewWithOptions points every
\* instance to it (e.Logger = log).
defaultlogger ==
    [Out |-> "os.Stderr", Formatter |-> "defaultTextFormatter",
     Level |-> defaultLogLevel]

\* A level name is a sequence of characters.
lowerLetters ==
    << "a", "b", "c", "d", "e", "f", "g", "h", "i", "j", "k", "l", "m",
       "n", "o", "p", "q", "r", "s", "t", "u", "v", "w", "x", "y", "z" >>

upperLetters ==
    << "A", "B", "C", "D", "E", "F", "G", "H", "I", "J", "K", "L", "M",
       "N", "O", "P", "Q", "R", "S", "T", "U", "V", "W", "X", "Y", "Z" >>

\* unicode.ToLower and unicode.ToUpper on the letters, as tables.
lowerOf ==
    [c \in {upperLetters[i] : i \in 1..Len(upperLetters)} |->
        lowerLetters[CHOOSE i \in 1..Len(upperLetters) : upperLetters[i] = c]]

upperOf ==
    [c \in {lowerLetters[i] : i \in 1..Len(lowerLetters)} |->
        upperLetters[CHOOSE i \in 1..Len(lowerLetters) : lowerLetters[i] = c]]

ToLowerChar(c) == IF c \in DOMAIN lowerOf THEN lowerOf[c] ELSE c

ToUpperChar(c) == IF c \in DOMAIN upperOf THEN upperOf[c] ELSE c

\* strings.ToLower
ToLower(str) == [i \in 1..Len(str) |-> ToLowerChar(str[i])]

\* The characters of a name as one string.
RECURSIVE Text(_)
Text(str) == IF str = <<>> THEN "" ELSE Head(str) \o Text(Tail(str))

\* The error logrus.ParseLevel returns for a name that is no level.
ParseError(lvl) ==
    << [k |-> "errorString", id |-> 6,
        msg |-> "not a valid logrus Level: \"" \o Text(lvl) \o "\""] >>

\* The switch of logrus.ParseLevel on the name l, for the argument lvl:
\* "warning" is a second name of the Warn level; any other name is an
\* error (with the zero Level).
parseSwitch(l, lvl) ==
    LET ok(v) == [level |-> v, err |-> NIL]
    IN CASE l = <<"p", "a", "n", "i", "c">> -> ok(PanicLevel)
         [] l = <<"f", "a", "t", "a", "l">> -> ok(FatalLevel)
         [] l = <<"e", "r", "r", "o", "r">> -> ok(ErrorLevel)
         [] l = <<"w", "a", "r", "n">> -> ok(WarnLevel)
         [] l = <<"w", "a", "r", "n", "i", "n", "g">> -> ok(WarnLevel)
         [] l = <<"i", "n", "f", "o">> -> ok(InfoLevel)
         [] l = <<"d", "e", "b", "u", "g">> -> ok(DebugLevel)
         [] l = <<"t", "r", "a", "c", "e">> -> ok(TraceLevel)
         [] OTHER -> [level |-> PanicLevel, err |-> ParseError(lvl)]

\* Mutant: the name is matched as written.
ParseLevel_CaseSensitive(lvl) == parseSwitch(lvl, lvl)

\* logrus.ParseLevel: the switch on the lower-cased name.
ParseLevel(lvl) == parseSwitch(ToLower(lvl), lvl)

\* ErrInvalidWriter = os.ErrInvalid
ErrInvalidWriter == <<[k |-> "errorString", id |-> 7, msg |-> "invalid argument"]>>

\* The nil io.Writer interface value.
NilWriter == "nil"

\* The package-level Err: the method value Log.Err, bound to the default
\* instance lg, whose current errFunc each call goes through.
PkgErr(lg, err) == Err(lg, err)

\* The outcome of a setter: the logger as it leaves it, what it returns,
\* whether it panicked, the log-function calls made.
SetterResult(lgr, res) ==
    [logger |-> lgr, ret |-> res.ret, panicked |-> res.panicked,
     calls |-> res.calls]

\* errorLogger.SetLogLevel on an instance whose Logger is lgr, with the
\* default instance in state lg.
SetLogLevel(lg, lgr, lvl) ==
    LET p == ParseLevel(lvl) IN
    IF p.err # NIL
    THEN SetterResult(lgr, PkgErr(lg, p.err))
    ELSE SetterResult([lgr EXCEPT !.Level = p.level], Returned(NIL, <<>>))

\* errorLogger.SetLogOutput and the package-level SetLogOutput: the type
\* switch takes the io.Writer case for every non-nil interface value.
SetLogOutput(lg, lgr, w) ==
    IF w # NilWriter
    THEN SetterResult([lgr EXCEPT !.Out = w], Returned(NIL, <<>>))
    ELSE SetterResult(lgr, PkgErr(lg, ErrInvalidWriter))

\* new(logrus.JSONFormatter); the text formatter is the default one.
defaultJSONFormatter == "defaultJSONFormatter"

defaultTextFormatter == "defaultTextFormatter"

\* logrus.Logger.SetFormatter, as EnableText / SetText and EnableJSON /
\* SetJSON call it on the embedded logger.
SetFormatter(lgr, f) == [lgr EXCEPT !.Formatter = f]

\* The level names of the documentation, in lower case.
LevelNames ==
    { <<"p", "a", "n", "i", "c">>, <<"f", "a", "t", "a", "l">>,
      <<"e", "r", "r", "o", "r">>, <<"w", "a", "r", "n">>,
      <<"i", "n", "f", "o">>, <<"d", "e", "b", "u", "g">>,
      <<"t", "r", "a", "c", "e">> }

\* Every casing of a lower-case name: any set of its letters in upper case.
Casings(name) ==
    { [i \in 1..Len(name) |-> IF i \in up THEN ToUpperChar(name[i]) ELSE name[i]] :
         up \in SUBSET (1..Len(name)) }

\* Names that are no casing of a documented level name.
OtherNames ==
    { <<>>, <<"b", "o", "g", "u", "s">>, <<"w", "a", "r", "n", "i", "n", "g">>,
      <<"W", "a", "r", "n", "i", "n", "g">>, <<"e", "r", "r">>,
      <<"i", "n", "f", "o", " ">> }

LevelInputs == (UNION {Casings(n) : n \in LevelNames}) \cup OtherNames

\* Output writers: the nil interface value, the default, another writer.
Writers == {NilWriter, "os.Stderr", "buf"}

-----------------------------------------------------------------------------
(* The state machine: one instance, the operations applied to it so far    *)

Entry(op, arg, res) ==
    [op |-> op, arg |-> arg, pre |-> el,
     ret |-> res.ret, panicked |-> res.panicked, calls |-> res.calls]

NoResult == Returned(NIL, <<>>)

\* A call that went through the package-level state: the default instance
\* and the logger as the call found them, and its outcome.
PkgEntry(op, arg, res) ==
    [op |-> op, arg |-> arg, pre |-> Log, logger |-> log, ret |-> res.ret,
     panicked |-> res.panicked, calls |-> res.calls]

\* No call has gone through the package-level state yet.
NoCall ==
    [op |-> "none", arg |-> NIL, pre |-> New, logger |-> defaultlogger,
     ret |-> NIL, panicked |-> FALSE, calls |-> <<>>]

\* Package initialisation: Log = New(), log at its defaults.
PkgInit ==
    /\ Log = New
    /\ log = defaultlogger
    /\ last = NoCall
    /\ levelSet = FALSE

\* No goroutine is inside a call.  Beside the positions the record keeps
\* what the claims read: the toggle that returned last, whether the Err
\* call started after a Disable had returned, whether a Disable stored
\* e.errFunc while the call was in progress, and whether a call in progress
\* during a Disable has logged.
NoRun ==
    [tpc |-> "idle", top |-> "none", rpc |-> "idle", arg |-> NIL,
     fn |-> "none", out |-> NoResult, overlapped |-> FALSE,
     lastDone |-> "none", afterDisable |-> FALSE, ranDisable |-> FALSE,
     sawInFlight |-> FALSE]

Init ==
    /\ PkgInit
    /\ run = NoRun
    /\ hist = <<>>
    /\ \/ /\ ctor = [name |-> "New", enabled |-> defaultEnabled,
                     fn |-> defaultLogFunc, wrap |-> defaultErrWrap]
          /\ el = New
       \/ \E en \in BOOLEAN, fn \in LogFuncs, w \in Templates :
             /\ ctor = [name |-> "NewWithOptions", enabled |-> en,
                        fn |-> fn, wrap |-> w]
             /\ el = NewWithOptions(en, fn, w)

CallEnable ==
    /\ Len(hist) < MaxHist
    /\ el' = Enable(el)
    /\ hist' = Append(hist, Entry("Enable", NIL, NoResult))
    /\ UNCHANGED <<ctor, pkgVars, run>>

CallDisable ==
    /\ Len(hist) < MaxHist
    /\ el' = Disable(el)
    /\ hist' = Append(hist, Entry("Disable", NIL, NoResult))
    /\ UNCHANGED <<ctor, pkgVars, run>>

CallSetErrorWrap ==
    /\ Len(hist) < MaxHist
    /\ \E w \in Templates :
          /\ el' = SetErrorWrap(el, w)
          /\ hist' = Append(hist, Entry("SetErrorWrap", w, NoResult))
    /\ UNCHANGED <<ctor, pkgVars, run>>

CallSetLoggerFunc ==
    /\ Len(hist) < MaxHist
    /\ \E fn \in LogFuncs :
          /\ el' = SetLoggerFunc(el, fn)
          /\ hist' = Append(hist, Entry("SetLoggerFunc", fn, NoResult))
    /\ UNCHANGED <<ctor, pkgVars, run>>

\* Mutant: an Err that has logged switches the instance off.
CallErr_LogsOnce ==
    /\ Len(hist) < MaxHist
    /\ \E err \in Errors :
          LET res == Err(el, err) IN
          /\ hist' = Append(hist, Entry("Err", err, res))
          /\ el' = IF res.calls # <<>> THEN Disable(el) ELSE el
    /\ UNCHANGED <<ctor, pkgVars, run>>

CallErr ==
    /\ Len(hist) < MaxHist
    /\ \E err \in Errors :
          hist' = Append(hist, Entry("Err", err, Err(el, err)))
    /\ UNCHANGED <<el, ctor, pkgVars, run>>

Next ==
    \/ CallEnable
    \/ CallDisable
    \/ CallSetErrorWrap
    \/ CallSetLoggerFunc
    \/ CallErr

Spec == Init /\ [][Next]_vars

-----------------------------------------------------------------------------
(* The level of the shared logger: SetLogLevel with every casing of every  *)
(* level name, on any state of the default instance                        *)

\* The constructed instance plays no part here.
InitLevel ==
    /\ PkgInit
    /\ hist = <<>>
    /\ ctor = [name |-> "New", enabled |-> defaultEnabled,
               fn |-> defaultLogFunc, wrap |-> defaultErrWrap]
    /\ el = New
    /\ run = NoRun

CallSetLogLevel ==
    /\ \E lvl \in LevelInputs :
          LET r == SetLogLevel(Log, log, lvl) IN
          /\ log' = r.logger
          /\ last' = PkgEntry("SetLogLevel", lvl, r)
    /\ levelSet' = TRUE
    /\ UNCHANGED <<el, hist, ctor, Log, run>>

LogSetup(op, arg, lg) ==
    /\ Log' = lg
    /\ last' = PkgEntry(op, arg, NoResult)
    /\ UNCHANGED <<el, hist, ctor, log, levelSet, run>>

LevelLogEnable == LogSetup("Enable", NIL, Enable(Log))

LevelLogDisable == LogSetup("Disable", NIL, Disable(Log))

LevelLogSetErrorWrap ==
    \E w \in Templates : LogSetup("SetErrorWrap", w, SetErrorWrap(Log, w))

LevelLogSetLoggerFunc ==
    \E fn \in LogFuncs : LogSetup("SetLoggerFunc", fn, SetLoggerFunc(Log, fn))

NextLevel ==
    \/ CallSetLogLevel
    \/ LevelLogEnable
    \/ LevelLogDisable
    \/ LevelLogSetErrorWrap
    \/ LevelLogSetLoggerFunc

SpecLevel == InitLevel /\ [][NextLevel]_vars

-----------------------------------------------------------------------------
(* The default instance and the package-level functions: hist holds the    *)
(* calls made on Log, through the package-level Err and to SetLogOutput    *)

InitPkg == InitLevel

PkgCall(op, arg, lg, lgr, res) ==
    /\ Len(hist) < MaxHist
    /\ Log' = lg
    /\ log' = lgr
    /\ hist' = Append(hist, PkgEntry(op, arg, res))
    /\ UNCHANGED <<el, ctor, last, levelSet, run>>

LogEnable == PkgCall("Enable", NIL, Enable(Log), log, NoResult)

LogDisable == PkgCall("Disable", NIL, Disable(Log), log, NoResult)

LogSetErrorWrap ==
    \E w \in Templates :
       PkgCall("SetErrorWrap", w, SetErrorWrap(Log, w), log, NoResult)

LogSetLoggerFunc ==
    \E fn \in LogFuncs :
       PkgCall("SetLoggerFunc", fn, SetLoggerFunc(Log, fn), log, NoResult)

CallPkgErr ==
    \E err \in Errors : PkgCall("Err", err, Log, log, PkgErr(Log, err))

CallSetLogOutput ==
    \E w \in Writers :
       LET r == SetLogOutput(Log, log, w)
       IN PkgCall("SetLogOutput", w, Log, r.logger, r)

NextPkg ==
    \/ LogEnable
    \/ LogDisable
    \/ LogSetErrorWrap
    \/ LogSetLoggerFunc
    \/ CallPkgErr
    \/ CallSetLogOutput

SpecPkg == InitPkg /\ [][NextPkg]_vars

-----------------------------------------------------------------------------
(* A constructed instance beside the default instance: hist holds the      *)
(* calls made on either, with both instances and the logger as each call   *)
(* found them                                                              *)

\* The inputs of this specification.
InstErrors == {NIL, errFake}

InstTemplates == {NIL, fakeSysCallError}

InstLevels ==
    { <<"e", "r", "r", "o", "r">>, <<"D", "E", "B", "U", "G">>,
      <<"b", "o", "g", "u", "s">> }

InstWriters == {NilWriter, "buf"}

InitInst ==
    /\ PkgInit
    /\ run = NoRun
    /\ hist = <<>>
    /\ \E en \in BOOLEAN, fn \in LogFuncs :
          /\ ctor = [name |-> "NewWithOptions", enabled |-> en,
                     fn |-> fn, wrap |-> defaultErrWrap]
          /\ el = NewWithOptions(en, fn, defaultErrWrap)

\* A call on instance on ("el" or "Log"): what it leaves of the instance el,
\* the default instance and the logger, and its outcome.  e.Logger = log:
\* the embedded logger of either instance is the package logger.
InstCall(on, op, arg, e2, lg2, lgr2, res) ==
    /\ Len(hist) < MaxHist
    /\ el' = e2
    /\ Log' = lg2
    /\ log' = lgr2
    /\ hist' = Append(hist,
                  [on |-> on, op |-> op, arg |-> arg, pre |-> el,
                   preLog |-> Log, logger |-> log, ret |-> res.ret,
                   panicked |-> res.panicked, calls |-> res.calls])
    /\ UNCHANGED <<ctor, last, levelSet, run>>

\* Mutant: the switch is package-level state, shared by the instances.
ElDisable_Shared ==
    InstCall("el", "Disable", NIL, Disable(el), Disable(Log), log, NoResult)

ElEnable == InstCall("el", "Enable", NIL, Enable(el), Log, log, NoResult)

ElDisable == InstCall("el", "Disable", NIL, Disable(el), Log, log, NoResult)

ElSetErrorWrap ==
    \E w \in InstTemplates :
       InstCall("el", "SetErrorWrap", w, SetErrorWrap(el, w), Log, log, NoResult)

ElSetLoggerFunc ==
    \E fn \in LogFuncs :
       InstCall("el", "SetLoggerFunc", fn, SetLoggerFunc(el, fn), Log, log,
                NoResult)

ElErr ==
    \E err \in InstErrors :
       InstCall("el", "Err", err, el, Log, log, Err(el, err))

ElSetLogLevel ==
    \E lvl \in InstLevels :
       LET r == SetLogLevel(Log, log, lvl)
       IN InstCall("el", "SetLogLevel", lvl, el, Log, r.logger, r)

ElSetLogOutput ==
    \E w \in InstWriters :
       LET r == SetLogOutput(Log, log, w)
       IN InstCall("el", "SetLogOutput", w, el, Log, r.logger, r)

ElSetText ==
    InstCall("el", "SetText", NIL, el, Log,
             SetFormatter(log, defaultTextFormatter), NoResult)

ElSetJSON ==
    InstCall("el", "SetJSON", NIL, el, Log,
             SetFormatter(log, defaultJSONFormatter), NoResult)

DefEnable == InstCall("Log", "Enable", NIL, el, Enable(Log), log, NoResult)

DefDisable == InstCall("Log", "Disable", NIL, el, Disable(Log), log, NoResult)

DefSetErrorWrap ==
    \E w \in InstTemplates :
       InstCall("Log", "SetErrorWrap", w, el, SetErrorWrap(Log, w), log, NoResult)

DefSetLoggerFunc ==
    \E fn \in LogFuncs :
       InstCall("Log", "SetLoggerFunc", fn, el, SetLoggerFunc(Log, fn), log,
                NoResult)

DefErr ==
    \E err \in InstErrors :
       InstCall("Log", "Err", err, el, Log, log, PkgErr(Log, err))

NextInst ==
    \/ ElEnable
    \/ ElDisable
    \/ ElSetErrorWrap
    \/ ElSetLoggerFunc
    \/ ElErr
    \/ ElSetLogLevel
    \/ ElSetLogOutput
    \/ ElSetText
    \/ ElSetJSON
    \/ DefEnable
    \/ DefDisable
    \/ DefSetErrorWrap
    \/ DefSetLoggerFunc
    \/ DefErr

SpecInst == InitInst /\ [][NextInst]_vars

-----------------------------------------------------------------------------
(* Two goroutines on one instance, with no synchronisation: one calls      *)
(* Enable and Disable, the other calls Err                                 *)

InitRace == Init

\* The implementation a toggle installs.
Installs(op) == IF op = "Enable" THEN Enable(el).errFunc ELSE Disable(el).errFunc

\* First statement of Enable / Disable: the plain store to e.enabled.
ToggleEnabled ==
    /\ run.tpc = "idle"
    /\ \E op \in {"Enable", "Disable"} :
          /\ el' = [el EXCEPT !.enabled = (op = "Enable")]
          /\ run' = [run EXCEPT !.tpc = "enabled", !.top = op,
                                !.overlapped = @ \/ run.rpc = "fetched"]
    /\ UNCHANGED <<hist, ctor, pkgVars>>

\* Second statement: the plain store of the new method value to e.errFunc.
\* Nothing orders the closure's initialisation before this store for a
\* goroutine that reads e.errFunc without synchronisation.
ToggleErrFunc ==
    /\ run.tpc = "enabled"
    /\ el' = [el EXCEPT !.errFunc = Installs(run.top)]
    /\ run' = [run EXCEPT !.tpc = "errFunc",
                          !.overlapped = @ \/ run.rpc = "fetched",
                          !.ranDisable = @ \/ (run.rpc = "fetched"
                                                 /\ run.top = "Disable")]
    /\ UNCHANGED <<hist, ctor, pkgVars>>

\* Enable / Disable returns; its stores are visible to every goroutine.
ToggleReturn ==
    /\ run.tpc = "errFunc"
    /\ run' = [run EXCEPT !.tpc = "idle", !.top = "none",
                          !.lastDone = run.top]
    /\ UNCHANGED <<el, hist, ctor, pkgVars>>

\* What the plain load of e.errFunc can yield: the value in memory, and,
\* racing with the store of a toggle, the new func value before its closure
\* is visible.
Observed == IF run.tpc = "errFunc" THEN {el.errFunc, "unpublished"} ELSE {el.errFunc}

\* Err, first half: the load of e.errFunc.
ErrFetch ==
    /\ run.rpc \in {"idle", "done"}
    /\ \E err \in Errors, fn \in Observed :
          run' = [run EXCEPT !.rpc = "fetched", !.arg = err, !.fn = fn,
                             !.out = NoResult,
                             !.overlapped = (run.tpc # "idle"),
                             !.afterDisable = (run.tpc = "idle"
                                               /\ run.lastDone = "Disable"),
                             !.ranDisable = FALSE]
    /\ UNCHANGED <<el, hist, ctor, pkgVars>>

\* Err, second half: the call of the fetched implementation, which reads
\* e.wrap and e.logFunc as they are now.
ErrRun ==
    /\ run.rpc = "fetched"
    /\ LET out == Err([el EXCEPT !.errFunc = run.fn], run.arg) IN
       run' = [run EXCEPT !.rpc = "done", !.out = out,
                          !.sawInFlight = @ \/ (run.ranDisable
                                                  /\ out.calls # <<>>)]
    /\ UNCHANGED <<el, hist, ctor, pkgVars>>

NextRace ==
    \/ ToggleEnabled
    \/ ToggleErrFunc
    \/ ToggleReturn
    \/ ErrFetch
    \/ ErrRun

SpecRace == InitRace /\ [][NextRace]_vars

-----------------------------------------------------------------------------
(* Two goroutines on one enabled instance, with no synchronisation: one    *)
(* calls SetErrorWrap, the other calls Err.  The wrap field is an          *)
(* interface value: two words, a type word and a data word, stored and     *)
(* loaded one after the other.                                             *)

\* No goroutine is inside a call.
NoWrapRun ==
    [tpc |-> "idle", new |-> NIL, rpc |-> "idle", arg |-> NIL,
     err2 |-> NIL, out |-> NoResult, overlapped |-> FALSE,
     tmpls |-> {}, torn |-> FALSE]

InitWrapRace ==
    /\ PkgInit
    /\ hist = <<>>
    /\ run = NoWrapRun
    /\ \E fn \in LogFuncs, w \in Templates :
          /\ ctor = [name |-> "NewWithOptions", enabled |-> TRUE,
                     fn |-> fn, wrap |-> w]
          /\ el = NewWithOptions(TRUE, fn, w)

\* An Err call is between its first and its last step.
ErrInFlight == run.rpc \in {"started", "use", "log"}

\* SetErrorWrap(w), first word: the type word of e.wrap is stored.
WrapStoreType ==
    /\ run.tpc = "idle"
    /\ \E w \in Templates :
          run' = [run EXCEPT !.tpc = "type", !.new = w,
                             !.overlapped = @ \/ ErrInFlight,
                             !.tmpls = IF ErrInFlight THEN @ \cup {w} ELSE @]
    /\ UNCHANGED <<el, hist, ctor, pkgVars>>

\* SetErrorWrap(w), second word: the data word is stored, and it returns.
WrapStoreData ==
    /\ run.tpc = "type"
    /\ el' = SetErrorWrap(el, run.new)
    /\ run' = [run EXCEPT !.tpc = "idle", !.new = NIL,
                          !.overlapped = @ \/ ErrInFlight]
    /\ UNCHANGED <<hist, ctor, pkgVars>>

\* A load of e.wrap: the type word and the data word as they are in memory,
\* the words of two different templates between the two stores.
LoadWrap ==
    IF run.tpc = "type"
    THEN [typ |-> run.new, data |-> el.wrap]
    ELSE [typ |-> el.wrap, data |-> el.wrap]

\* The outcomes of v.Error() on a loaded interface value: the message of
\* the template; a fault on a nil data word under a non-nil type word; on
\* the data of one type under the type word of another, a fault or a
\* message read from foreign memory.
ErrorOf(v) ==
    CASE v.typ = v.data -> {[fault |-> FALSE, msg |-> ErrorMsg(v.data)]}
      [] v.data = NIL -> {[fault |-> TRUE, msg |-> ""]}
      [] Head(v.typ).k = Head(v.data).k ->
            {[fault |-> FALSE, msg |-> ErrorMsg(v.data)]}
      [] OTHER -> {[fault |-> TRUE, msg |-> ""],
                   [fault |-> FALSE, msg |-> "(foreign memory)"]}

\* Err(err) enters yesErr (the instance is enabled).
WrapErrStart ==
    /\ run.rpc \in {"idle", "done"}
    /\ \E err \in Errors :
          run' = [run EXCEPT !.rpc = "started", !.arg = err, !.err2 = NIL,
                             !.out = NoResult, !.torn = FALSE,
                             !.overlapped = (run.tpc # "idle"),
                             !.tmpls = {el.wrap} \cup
                                (IF run.tpc # "idle" THEN {run.new} ELSE {})]
    /\ UNCHANGED <<el, hist, ctor, pkgVars>>

\* yesErr: if err != nil { if e.wrap != nil -- the first load of e.wrap; an
\* interface value is nil when its type word is.
YesErrCheck ==
    /\ run.rpc = "started"
    /\ LET v == LoadWrap IN
       run' = IF run.arg = NIL
              THEN [run EXCEPT !.rpc = "done", !.out = Returned(NIL, <<>>)]
              ELSE IF v.typ = NIL
              THEN [run EXCEPT !.rpc = "log", !.err2 = run.arg,
                               !.torn = (v.typ # v.data)]
              ELSE [run EXCEPT !.rpc = "use", !.torn = (v.typ # v.data)]
    /\ UNCHANGED <<el, hist, ctor, pkgVars>>

\* yesErr: err = errors.Wrap(err, e.wrap.Error()) -- the second load of
\* e.wrap; a method call on a nil interface value panics.
YesErrUse ==
    /\ run.rpc = "use"
    /\ LET v == LoadWrap IN
       IF v.typ = NIL
       THEN run' = [run EXCEPT !.rpc = "done", !.out = Panicked]
       ELSE \E o \in ErrorOf(v) :
               run' = IF o.fault
                      THEN [run EXCEPT !.rpc = "done", !.out = Panicked,
                                       !.torn = TRUE]
                      ELSE [run EXCEPT !.rpc = "log",
                                       !.err2 = Wrap(run.arg, o.msg),
                                       !.torn = @ \/ v.typ # v.data]
    /\ UNCHANGED <<el, hist, ctor, pkgVars>>

\* yesErr: e.logFunc(err); return err
YesErrLog ==
    /\ run.rpc = "log"
    /\ run' = [run EXCEPT !.rpc = "done",
                 !.out = IF el.logFunc = NilFunc
                         THEN Panicked
                         ELSE Returned(run.err2,
                                 <<[fn |-> el.logFunc, args |-> <<run.err2>>]>>)]
    /\ UNCHANGED <<el, hist, ctor, pkgVars>>

NextWrapRace ==
    \/ WrapStoreType
    \/ WrapStoreData
    \/ WrapErrStart
    \/ YesErrCheck
    \/ YesErrUse
    \/ YesErrLog

SpecWrapRace == InitWrapRace /\ [][NextWrapRace]_vars

-----------------------------------------------------------------------------
(* Two goroutines on one instance, with no synchronisation: one calls      *)
(* Enable, the other calls Disable                                         *)

\* Neither goroutine has called yet.
NoToggleRun ==
    [apc |-> "idle", bpc |-> "idle", overlapped |-> FALSE]

InitToggleRace ==
    /\ PkgInit
    /\ hist = <<>>
    /\ run = NoToggleRun
    /\ \E en \in BOOLEAN, fn \in LogFuncs, w \in Templates :
          /\ ctor = [name |-> "NewWithOptions", enabled |-> en,
                     fn |-> fn, wrap |-> w]
          /\ el = NewWithOptions(en, fn, w)

\* Enable, first statement: e.enabled = true
EnableStoreFlag ==
    /\ run.apc \in {"idle", "returned"}
    /\ el' = [el EXCEPT !.enabled = Enable(el).enabled]
    /\ run' = [run EXCEPT !.apc = "flag",
                          !.overlapped = (run.bpc = "flag")]
    /\ UNCHANGED <<hist, ctor, pkgVars>>

\* Enable, second statement: e.errFunc = e.yesErr; Enable returns.
EnableStoreFunc ==
    /\ run.apc = "flag"
    /\ el' = [el EXCEPT !.errFunc = Enable(el).errFunc]
    /\ run' = [run EXCEPT !.apc = "returned"]
    /\ UNCHANGED <<hist, ctor, pkgVars>>

\* Disable, first statement: e.enabled = false
DisableStoreFlag ==
    /\ run.bpc \in {"idle", "returned"}
    /\ el' = [el EXCEPT !.enabled = Disable(el).enabled]
    /\ run' = [run EXCEPT !.bpc = "flag",
                          !.overlapped = (run.apc = "flag")]
    /\ UNCHANGED <<hist, ctor, pkgVars>>

\* Disable, second statement: e.errFunc = e.noErr; Disable returns.
DisableStoreFunc ==
    /\ run.bpc = "flag"
    /\ el' = [el EXCEPT !.errFunc = Disable(el).errFunc]
    /\ run' = [run EXCEPT !.bpc = "returned"]
    /\ UNCHANGED <<hist, ctor, pkgVars>>

NextToggleRace ==
    \/ EnableStoreFlag
    \/ EnableStoreFunc
    \/ DisableStoreFlag
    \/ DisableStoreFunc

SpecToggleRace == InitToggleRace /\ [][NextToggleRace]_vars

-----------------------------------------------------------------------------
(* MutexEnable and MutexWrap (mutexwrap.go): a sync.Mutex behind a switch. *)
(* The sync.Mutex is modelled by whether it is locked; it has no owner:    *)
(* Unlock by any goroutine releases it, Unlock of an unlocked mutex is a   *)
(* fatal error of the program, Lock of a locked mutex blocks the caller.   *)

\* Most calls (Lock, Enable, Disable) made on a mutex in one run.
MaxCalls == 6

\* The goroutines that call Lock() ... Unlock().
Procs == {"g1", "g2"}

\* var mw MutexEnable: the zero value, no implementation installed.
MutexEnable == [lock |-> FALSE, fnLock |-> NilFunc, fnUnlock |-> NilFunc]

\* var mw MutexWrap: the zero value, enabled.
MutexWrap == [lock |-> FALSE, disabled |-> FALSE]

\* The outcome of a call on a mutex: the mutex after it and how it ended
\* ("returns", "blocks" on the locked mutex, "fatal" on the unlock of an
\* unlocked mutex, "panics" on the call of a nil func value).
Outcome(mw, out) == [mw |-> mw, out |-> out]

\* mw.lock.Lock()
Mutex_Lock(mw) ==
    IF mw.lock THEN Outcome(mw, "blocks")
               ELSE Outcome([mw EXCEPT !.lock = TRUE], "returns")

\* mw.lock.Unlock()
Mutex_Unlock(mw) ==
    IF mw.lock THEN Outcome([mw EXCEPT !.lock = FALSE], "returns")
               ELSE Outcome(mw, "fatal")

yesLock(mw) == Mutex_Lock(mw)

yesUnlock(mw) == Mutex_Unlock(mw)

noLock(mw) == Outcome(mw, "returns")

\* A no-op unlock that releases the mutex all the same.
noUnlock_Releases(mw) == Outcome([mw EXCEPT !.lock = FALSE], "returns")

noUnlock(mw) == Outcome(mw, "returns")

\* mw.fnLock(), for the value fn loaded from the field.
CallLock(mw, fn) ==
    CASE fn = "yesLock" -> yesLock(mw)
      [] fn = "noLock"  -> noLock(mw)
      [] OTHER          -> Outcome(mw, "panics")

\* mw.fnUnlock(), for the value fn loaded from the field.
CallUnlock(mw, fn) ==
    CASE fn = "yesUnlock" -> yesUnlock(mw)
      [] fn = "noUnlock"  -> noUnlock(mw)
      [] OTHER            -> Outcome(mw, "panics")

MutexEnable_Lock(mw) == CallLock(mw, mw.fnLock)

MutexEnable_Unlock(mw) == CallUnlock(mw, mw.fnUnlock)

\* Disable that swaps the lock function only.
Disable_LockOnly(mw) == [mw EXCEPT !.fnLock = "noLock"]

MutexEnable_Disable(mw) ==
    [mw EXCEPT !.fnLock = "noLock", !.fnUnlock = "noUnlock"]

\* Enable that swaps the lock function only.
Enable_LockOnly(mw) == [mw EXCEPT !.fnLock = "yesLock"]

MutexEnable_Enable(mw) ==
    [mw EXCEPT !.fnLock = "yesLock", !.fnUnlock = "yesUnlock"]

\* A Lock that takes the mutex whatever the flag says.
MutexWrap_Lock_Always(mw) == Mutex_Lock(mw)

MutexWrap_Lock(mw) ==
    IF ~mw.disabled THEN Mutex_Lock(mw) ELSE Outcome(mw, "returns")

MutexWrap_Unlock(mw) ==
    IF ~mw.disabled THEN Mutex_Unlock(mw) ELSE Outcome(mw, "returns")

MutexWrap_Disable(mw) == [mw EXCEPT !.disabled = TRUE]

-----------------------------------------------------------------------------
(* Goroutines on one MutexEnable: each of Procs calls Lock() ... Unlock()  *)
(* in pairs, and Enable() and Disable() are called in between, with no     *)
(* synchronisation of their own.                                           *)

\* A MutexEnable{} nobody has called yet.  owner: the goroutine whose Lock()
\* acquired the mutex while it is locked, "gone" once that goroutine is past
\* its Unlock() with the mutex still locked, "none" while it is free; lost:
\* the owner was gone when the last Enable() returned, and no toggle has
\* been called since; raced: some Lock() or Unlock() was called while a
\* toggle was under way.
NoMutexRun ==
    [mw |-> MutexEnable,
     pc |-> [p \in Procs |-> "out"],     \* where each goroutine is
     how |-> [p \in Procs |-> "none"],   \* what its returned Lock() ran
     tpc |-> "idle", new |-> MutexEnable, lastDone |-> "none",
     owner |-> "none", everDisabled |-> FALSE, contended |-> FALSE,
     lost |-> FALSE, raced |-> FALSE, fatal |-> FALSE, n |-> 0]

InitMutex ==
    /\ PkgInit
    /\ hist = <<>>
    /\ ctor = [name |-> "MutexEnable{}"]
    /\ el = errorLogger
    /\ run = NoMutexRun

\* Enable() or Disable() is called: its two plain stores are under way.
MwToggleCall ==
    /\ ~run.fatal
    /\ run.tpc = "idle"
    /\ run.n < MaxCalls
    /\ \E op \in {"Enable", "Disable"} :
          run' = [run EXCEPT !.tpc = op,
                             !.new = IF op = "Enable"
                                     THEN MutexEnable_Enable(run.mw)
                                     ELSE MutexEnable_Disable(run.mw),
                             !.everDisabled = @ \/ op = "Disable",
                             !.lost = FALSE,
                             !.n = @ + 1]
    /\ UNCHANGED <<el, hist, ctor, pkgVars>>

\* Enable() or Disable() returns: both stores are in memory.
MwToggleReturn ==
    /\ ~run.fatal
    /\ run.tpc # "idle"
    /\ run' = [run EXCEPT !.tpc = "idle", !.lastDone = run.tpc,
                          !.lost = (run.tpc = "Enable" /\ run.owner = "gone"),
                          !.mw = [run.new EXCEPT !.lock = run.mw.lock]]
    /\ UNCHANGED <<el, hist, ctor, pkgVars>>

\* What an unsynchronised load of a func field can yield: the value in
\* memory and, racing with the stores of a toggle, the old value, the new
\* one, or the new func value before its closure is visible.
ObservedFn(field) ==
    IF run.tpc = "idle"
    THEN {run.mw[field]}
    ELSE {run.mw[field], run.new[field], "unpublished"}

\* p calls Lock().
MwLock(p) ==
    /\ ~run.fatal
    /\ run.pc[p] = "out"
    /\ run.n < MaxCalls
    /\ \E fn \in ObservedFn("fnLock") :
          LET r == CallLock(run.mw, fn) IN
          run' = [run EXCEPT
                    !.mw = r.mw,
                    !.n = @ + 1,
                    !.raced = @ \/ run.tpc # "idle",
                    !.contended = @ \/ (r.out = "blocks"
                                          /\ ~run.everDisabled),
                    !.pc[p] = CASE r.out = "returns" -> "in"
                                [] r.out = "blocks"  -> "blocked"
                                [] OTHER             -> "panicked",
                    !.how[p] = CASE r.out # "returns" -> "none"
                                 [] fn = "yesLock"    -> "real"
                                 [] OTHER             -> "noop",
                    !.owner = IF r.mw.lock /\ ~run.mw.lock THEN p ELSE @]
    /\ UNCHANGED <<el, hist, ctor, pkgVars>>

\* p, blocked in mw.lock.Lock(), gets the mutex and its Lock() returns.
MwAcquire(p) ==
    /\ ~run.fatal
    /\ run.pc[p] = "blocked"
    /\ Mutex_Lock(run.mw).out = "returns"
    /\ run' = [run EXCEPT !.mw = Mutex_Lock(run.mw).mw,
                          !.pc[p] = "in", !.how[p] = "real",
                          !.owner = p]
    /\ UNCHANGED <<el, hist, ctor, pkgVars>>

\* p, whose Lock() returned, calls the matching Unlock().
MwUnlock(p) ==
    /\ ~run.fatal
    /\ run.pc[p] = "in"
    /\ \E fn \in ObservedFn("fnUnlock") :
          LET r == CallUnlock(run.mw, fn) IN
          run' = [run EXCEPT
                    !.mw = r.mw,
                    !.fatal = (r.out = "fatal"),
                    !.raced = @ \/ run.tpc # "idle",
                    !.pc[p] = CASE r.out = "returns" -> "out"
                                [] r.out = "fatal"   -> "fatal"
                                [] OTHER             -> "panicked",
                    !.how[p] = IF r.out = "fatal" THEN @ ELSE "none",
                    !.owner = CASE r.out = "fatal"    -> @
                                [] ~r.mw.lock         -> "none"
                                [] run.owner = p      -> "gone"
                                [] OTHER              -> @]
    /\ UNCHANGED <<el, hist, ctor, pkgVars>>

NextMutex ==
    \/ MwToggleCall
    \/ MwToggleReturn
    \/ \E p \in Procs : MwLock(p)
    \/ \E p \in Procs : MwAcquire(p)
    \/ \E p \in Procs : MwUnlock(p)

SpecMutex == InitMutex /\ [][NextMutex]_vars

-----------------------------------------------------------------------------
(* A MutexEnable after Enable() and a zero MutexWrap side by side: every   *)
(* call is made on both, by the same goroutine.                            *)

\* No call yet.  stE, stW: where each goroutine is on the MutexEnable and
\* on the MutexWrap ("ready" to call, "blocked" in a Lock(), "fatal");
\* outE, outW: how the last call ended on each.  hist is the sequence of
\* calls made so far.
NoEquivRun ==
    [mw |-> MutexEnable_Enable(MutexEnable),
     wrap |-> MutexWrap,
     stE |-> [p \in Procs |-> "ready"],
     stW |-> [p \in Procs |-> "ready"],
     op |-> "none", outE |-> "none", outW |-> "none", n |-> 0]

InitEquiv ==
    /\ PkgInit
    /\ hist = <<>>
    /\ ctor = [name |-> "MutexEnable{} / MutexWrap{}"]
    /\ el = errorLogger
    /\ run = NoEquivRun

\* A goroutine that can make its next call on both mutexes; after a fatal
\* error of either program nothing runs.
CanCall(p) ==
    /\ run.n < MaxCalls
    /\ run.stE[p] = "ready" /\ run.stW[p] = "ready"
    /\ \A q \in Procs : run.stE[q] # "fatal" /\ run.stW[q] # "fatal"

\* Where a goroutine is after a call that ended in out.
After(out) ==
    CASE out = "returns" -> "ready"
      [] out = "blocks"  -> "blocked"
      [] OTHER           -> "fatal"

\* p calls Lock() on both.
EqLock(p) ==
    /\ CanCall(p)
    /\ LET e == MutexEnable_Lock(run.mw)
           w == MutexWrap_Lock(run.wrap) IN
       run' = [run EXCEPT !.mw = e.mw, !.wrap = w.mw,
                          !.stE[p] = After(e.out), !.stW[p] = After(w.out),
                          !.op = "Lock", !.outE = e.out, !.outW = w.out,
                          !.n = @ + 1]
    /\ hist' = Append(hist, [op |-> "Lock", by |-> p])
    /\ UNCHANGED <<el, ctor, pkgVars>>

\* p calls Unlock() on both.
EqUnlock(p) ==
    /\ CanCall(p)
    /\ LET e == MutexEnable_Unlock(run.mw)
           w == MutexWrap_Unlock(run.wrap) IN
       run' = [run EXCEPT !.mw = e.mw, !.wrap = w.mw,
                          !.stE[p] = After(e.out), !.stW[p] = After(w.out),
                          !.op = "Unlock", !.outE = e.out, !.outW = w.out,
                          !.n = @ + 1]
    /\ hist' = Append(hist, [op |-> "Unlock", by |-> p])
    /\ UNCHANGED <<el, ctor, pkgVars>>

\* p calls Disable() on both.
EqDisable(p) ==
    /\ CanCall(p)
    /\ run' = [run EXCEPT !.mw = MutexEnable_Disable(run.mw),
                          !.wrap = MutexWrap_Disable(run.wrap),
                          !.op = "Disable",
                          !.outE = "returns", !.outW = "returns",
                          !.n = @ + 1]
    /\ hist' = Append(hist, [op |-> "Disable", by |-> p])
    /\ UNCHANGED <<el, ctor, pkgVars>>

\* p, blocked in mw.lock.Lock(), gets each mutex that has become free, and
\* its Lock() on it returns.
EqResume(p) ==
    /\ \A q \in Procs : run.stE[q] # "fatal" /\ run.stW[q] # "fatal"
    /\ LET e == run.stE[p] = "blocked" /\ ~run.mw.lock
           w == run.stW[p] = "blocked" /\ ~run.wrap.lock IN
       /\ e \/ w
       /\ run' = [run EXCEPT
                    !.mw = IF e THEN Mutex_Lock(run.mw).mw ELSE @,
                    !.wrap = IF w THEN Mutex_Lock(run.wrap).mw ELSE @,
                    !.stE[p] = IF e THEN "ready" ELSE @,
                    !.stW[p] = IF w THEN "ready" ELSE @,
                    !.op = "Lock (resumed)",
                    !.outE = IF e THEN "returns" ELSE "blocks",
                    !.outW = IF w THEN "returns" ELSE "blocks"]
    /\ hist' = Append(hist, [op |-> "Lock (resumed)", by |-> p])
    /\ UNCHANGED <<el, ctor, pkgVars>>

NextEquiv ==
    \/ \E p \in Procs : EqLock(p)
    \/ \E p \in Procs : EqUnlock(p)
    \/ \E p \in Procs : EqDisable(p)
    \/ \E p \in Procs : EqResume(p)

SpecEquiv == InitEquiv /\ [][NextEquiv]_vars

-----------------------------------------------------------------------------
(* Values that no constructor and no toggle has touched: var mw            *)
(* MutexEnable and an errorLogger{}, called by one goroutine that recovers *)
(* from a panic and goes on.                                               *)

\* The zero MutexEnable; stopped: the goroutine is blocked in a Lock() or
\* the program has died of a fatal error.
NoZeroRun == [mw |-> MutexEnable, stopped |-> FALSE]

InitZero ==
    /\ PkgInit
    /\ hist = <<>>
    /\ ctor = [name |-> "MutexEnable{} / errorLogger{}"]
    /\ el = errorLogger
    /\ run = NoZeroRun

\* A call op on the value named on ("mw" or "el"), which was pre before the
\* call and is post after it, and which ended in out.
ZeroCall(on, op, arg, pre, post, out) ==
    /\ ~run.stopped
    /\ Len(hist) < MaxHist
    /\ hist' = Append(hist, [on |-> on, op |-> op, arg |-> arg, pre |-> pre,
                             post |-> post, out |-> out])
    /\ el' = IF on = "el" THEN post ELSE el
    /\ run' = [run EXCEPT !.mw = IF on = "mw" THEN post ELSE @,
                          !.stopped = out \in {"blocks", "fatal"}]
    /\ UNCHANGED <<ctor, pkgVars>>

ZeroLock ==
    LET r == MutexEnable_Lock(run.mw) IN
    ZeroCall("mw", "Lock", NIL, run.mw, r.mw, r.out)

ZeroUnlock ==
    LET r == MutexEnable_Unlock(run.mw) IN
    ZeroCall("mw", "Unlock", NIL, run.mw, r.mw, r.out)

ZeroMutexEnable ==
    ZeroCall("mw", "Enable", NIL, run.mw, MutexEnable_Enable(run.mw), "returns")

ZeroMutexDisable ==
    ZeroCall("mw", "Disable", NIL, run.mw, MutexEnable_Disable(run.mw),
             "returns")

ZeroErr ==
    \E err \in InstErrors :
       ZeroCall("el", "Err", err, el, el,
                IF Err(el, err).panicked THEN "panics" ELSE "returns")

ZeroEnable == ZeroCall("el", "Enable", NIL, el, Enable(el), "returns")

ZeroDisable == ZeroCall("el", "Disable", NIL, el, Disable(el), "returns")

ZeroSetErrorWrap ==
    \E w \in InstTemplates :
       ZeroCall("el", "SetErrorWrap", w, el, SetErrorWrap(el, w), "returns")

ZeroSetLoggerFunc ==
    \E fn \in LogFuncs :
       ZeroCall("el", "SetLoggerFunc", fn, el, SetLoggerFunc(el, fn),
                "returns")

NextZero ==
    \/ ZeroLock
    \/ ZeroUnlock
    \/ ZeroMutexEnable
    \/ ZeroMutexDisable
    \/ ZeroErr
    \/ ZeroEnable
    \/ ZeroDisable
    \/ ZeroSetErrorWrap
    \/ ZeroSetLoggerFunc

SpecZero == InitZero /\ [][NextZero]_vars

-----------------------------------------------------------------------------
(* Reading the history                                                     *)

\* The completed Err calls.
ErrCalls == {i \in 1..Len(hist) : hist[i].op = "Err"}

\* The instance as operation i left it.
Post(i) == IF i = Len(hist) THEN el ELSE hist[i + 1].pre

\* Operation i is Enable or Disable.
IsToggle(i) == hist[i].op \in {"Enable", "Disable"}

\* Err call i made at least one log-function call.
Logged(i) == hist[i].calls # <<>>

\* Err call i made exactly one log-function call, with the one argument v.
LoggedOnce(i, v) == Len(hist[i].calls) = 1 /\ hist[i].calls[1].args = <<v>>

\* The toggle that governs operation i: the last Enable or Disable before
\* it (0 when there is none).
LastToggle(i) ==
    LET ts == {j \in 1..(i - 1) : IsToggle(j)}
    IN IF ts = {} THEN 0 ELSE CHOOSE j \in ts : \A m \in ts : m <= j

-----------------------------------------------------------------------------
(* Claims                                                                  *)

\* C1: every Err(e), in every configuration, returns e itself; with a wrap
\* template configured it returns the original e, never the wrapped value.
C1_ErrReturnsInput ==
    \A i \in ErrCalls : ~hist[i].panicked => hist[i].ret = hist[i].arg

\* C2: Err(nil) returns nil and makes no log-function call, enabled or
\* disabled, whatever the wrap template.
C2_ErrNilSilent ==
    \A i \in ErrCalls :
       hist[i].arg = NIL =>
          /\ ~hist[i].panicked
          /\ hist[i].ret = NIL
          /\ hist[i].calls = <<>>

\* C2 witness: Err(nil) has run enabled with a wrap template and a log
\* function installed, and has run disabled.
C2_Witness ==
    /\ \E i \in ErrCalls :
          /\ hist[i].arg = NIL /\ hist[i].pre.enabled
          /\ hist[i].pre.wrap # NIL /\ hist[i].pre.logFunc # NilFunc
    /\ \E i \in ErrCalls : hist[i].arg = NIL /\ ~hist[i].pre.enabled

\* C3: while the instance is disabled every Err call, whatever its input
\* and however many are made, makes no log-function call and returns its
\* input.
C3_DisabledSilent ==
    \A i \in ErrCalls :
       ~hist[i].pre.enabled =>
          /\ ~hist[i].panicked
          /\ hist[i].calls = <<>>
          /\ hist[i].ret = hist[i].arg

\* C3 witness: two Err calls in a row on a disabled instance that has a
\* wrap template and a log function, both with non-nil errors.
C3_Witness ==
    \E i \in ErrCalls :
       /\ i + 1 \in ErrCalls
       /\ ~hist[i].pre.enabled
       /\ hist[i].pre.wrap # NIL /\ hist[i].pre.logFunc # NilFunc
       /\ hist[i].arg # NIL /\ hist[i + 1].arg # NIL
       /\ hist[i].arg # hist[i + 1].arg

\* C4: enabled and with no wrap template, Err(e) with e non-nil calls the
\* log function exactly once, with the single argument e.
C4_EnabledLogsInput ==
    \A i \in ErrCalls :
       (hist[i].pre.enabled /\ hist[i].pre.wrap = NIL /\ hist[i].arg # NIL)
          => LoggedOnce(i, hist[i].arg)

\* C5: enabled and with wrap template T, Err(e) with e non-nil calls the
\* log function exactly once, with a value whose chain contains e and
\* whose message is T's message, ": ", e's message (also for an empty
\* message of T).
C5_EnabledLogsWrapped ==
    \A i \in ErrCalls :
       (hist[i].pre.enabled /\ hist[i].pre.wrap # NIL /\ hist[i].arg # NIL)
          => /\ Len(hist[i].calls) = 1
             /\ Len(hist[i].calls[1].args) = 1
             /\ LET v == hist[i].calls[1].args[1]
                IN /\ Is(v, hist[i].arg)
                   /\ v # hist[i].arg
                   /\ ErrorMsg(v) = ErrorMsg(hist[i].pre.wrap) \o ": "
                                       \o ErrorMsg(hist[i].arg)

\* C6: with a non-nil template w set, every non-nil error processed by an
\* enabled Err is recognised as w by errors.Is.
C6_ProcessedIsTemplate ==
    \A i \in ErrCalls :
       (hist[i].pre.enabled /\ hist[i].pre.wrap # NIL /\ hist[i].arg # NIL
          /\ ~hist[i].panicked)
          => \A c \in 1..Len(hist[i].calls) :
                Is(hist[i].calls[c].args[1], hist[i].pre.wrap)

\* C7 as stated: for every template w and every input e that is not w
\* itself, the value yesErr(e) returns is not w according to errors.Is.
C7_ReturnedNeverTemplate ==
    \A i \in ErrCalls :
       (hist[i].pre.errFunc = "yesErr" /\ ~hist[i].panicked
          /\ hist[i].arg # hist[i].pre.wrap)
          => ~Is(hist[i].ret, hist[i].pre.wrap)

\* C7 amended: for every template w and every input e that does not have
\* w in its own chain, the value yesErr(e) returns is not w according to
\* errors.Is.
C7_ReturnedNotTemplateUnlessInput ==
    \A i \in ErrCalls :
       (hist[i].pre.errFunc = "yesErr" /\ ~hist[i].panicked
          /\ ~Is(hist[i].arg, hist[i].pre.wrap))
          => ~Is(hist[i].ret, hist[i].pre.wrap)

\* C7 witness: yesErr has wrapped a non-nil error in a non-nil template
\* that is not in the error's chain, and returned.
C7_Witness ==
    \E i \in ErrCalls :
       /\ hist[i].pre.errFunc = "yesErr" /\ ~hist[i].panicked
       /\ hist[i].pre.wrap # NIL /\ hist[i].arg # NIL
       /\ ~Is(hist[i].arg, hist[i].pre.wrap)
       /\ hist[i].ret # hist[i].arg

\* C8: Enable and Disable are idempotent: a second Enable (Disable) right
\* after a first leaves the state, hence every later Err outcome, as the
\* first left it, and each is a self-loop in the state it names.
C8_ToggleIdempotent ==
    \A i \in 1..Len(hist) :
       /\ (i > 1 /\ IsToggle(i) /\ hist[i - 1].op = hist[i].op)
             => /\ Post(i) = Post(i - 1)
                /\ \A err \in Errors : Err(Post(i), err) = Err(Post(i - 1), err)
       /\ (hist[i].op = "Enable" /\ hist[i].pre.enabled)
             => Post(i) = hist[i].pre
       /\ (hist[i].op = "Disable" /\ ~hist[i].pre.enabled)
             => Post(i) = hist[i].pre

\* C8 witness: Enable twice in a row and then an Err call, on an instance
\* that was disabled before.
C8_Witness ==
    /\ Len(hist) = 3
    /\ hist[1].op = "Enable" /\ hist[2].op = "Enable" /\ hist[3].op = "Err"
    /\ ~hist[1].pre.enabled
    /\ hist[3].arg # NIL

\* C9: the first Err(e), e non-nil, after a sequence of Enable / Disable
\* calls logs exactly when the last toggle of the sequence was Enable.
C9_LastToggleWins ==
    \A i \in ErrCalls :
       (hist[i].arg # NIL /\ LastToggle(i) # 0)
          => (Logged(i) <=> hist[LastToggle(i)].op = "Enable")

\* C10: the first Err(e), e non-nil, of a new instance logs exactly when
\* the constructor's enabled parameter was true; New() is enabled.
C10_InitialStateIsParameter ==
    /\ (ctor.name = "New" /\ hist = <<>>) => el.enabled
    /\ (1 \in ErrCalls /\ hist[1].arg # NIL)
          => (Logged(1) <=> ctor.enabled)

\* The last call of operation op before call i (0 when there is none).
LastOp(op, i) ==
    LET js == {j \in 1..(i - 1) : hist[j].op = op}
    IN IF js = {} THEN 0 ELSE CHOOSE j \in js : \A m \in js : m <= j

\* What an enabled Err hands the log function for error err under
\* template w: err wrapped in w's message, err itself when w is nil.
Processed(err, w) == IF w = NIL THEN err ELSE Wrap(err, ErrorMsg(w))

\* C11: the constructor substitutes defaults: built with a nil log
\* function the instance has the collaborator's Error-level function
\* installed, built with no wrap it does not wrap, and no instance leaves
\* the constructor with an unset log function.
C11_ConstructorDefaults ==
    hist = <<>> =>
       /\ el.logFunc # NilFunc
       /\ (ctor.fn = NilFunc => el.logFunc = defaultLogFunc)
       /\ (ctor.wrap = NIL => el.wrap = NIL)

\* C12: in every state reachable from a constructor by Enable, Disable,
\* SetErrorWrap, SetLoggerFunc and Err calls with any arguments (nil
\* included), Err(e) returns normally.
C12_ErrNeverPanics ==
    \A i \in ErrCalls : ~hist[i].panicked

C14_ErrorWrapReplaces ==
    \A i \in ErrCalls :
       LET j == LastOp("SetErrorWrap", i) IN
       (j # 0 /\ hist[i].pre.enabled /\ hist[i].arg # NIL)
          => LoggedOnce(i, Processed(hist[i].arg, hist[j].arg))

\* The level value the documentation gives a lower-case level name.
LevelValue(name) ==
    CASE name = <<"p", "a", "n", "i", "c">> -> PanicLevel
      [] name = <<"f", "a", "t", "a", "l">> -> FatalLevel
      [] name = <<"e", "r", "r", "o", "r">> -> ErrorLevel
      [] name = <<"w", "a", "r", "n">> -> WarnLevel
      [] name = <<"i", "n", "f", "o">> -> InfoLevel
      [] name = <<"d", "e", "b", "u", "g">> -> DebugLevel
      [] name = <<"t", "r", "a", "c", "e">> -> TraceLevel

\* C15: SetLogLevel with any casing of Panic, Fatal, Error, Warn, Info,
\* Debug or Trace returns no error and sets the logger's level to the
\* level of that name, the same for every casing.
C15_EveryCasingAccepted ==
    last.op = "SetLogLevel" =>
       \A n \in LevelNames :
          last.arg \in Casings(n) =>
             /\ ~last.panicked
             /\ last.ret = NIL
             /\ last.calls = <<>>
             /\ log.Level = LevelValue(n)

\* C15 witness: SetLogLevel("TrAcE") has moved the level from another
\* level to Trace.
C15_Witness ==
    /\ last.op = "SetLogLevel"
    /\ last.arg = <<"T", "r", "A", "c", "E">>
    /\ last.logger.Level # TraceLevel
    /\ log.Level = TraceLevel

\* C16: SetLogLevel with a name that is no casing of Panic, Fatal, Error,
\* Warn, Info, Debug or Trace returns an invalid-level error and leaves
\* the logger's level as it was.
C16_OtherNameRejected ==
    (last.op = "SetLogLevel"
       /\ \A n \in LevelNames : last.arg \notin Casings(n))
       => /\ ~last.panicked
          /\ Is(last.ret, ParseError(last.arg))
          /\ log.Level = last.logger.Level

OutCalls == {i \in 1..Len(hist) : hist[i].op = "SetLogOutput"}

\* The shared logger as package-level call i left it.
PostLogger(i) == IF i = Len(hist) THEN log ELSE hist[i + 1].logger

\* C17: SetLogOutput(nil) returns the InvalidWriter error and leaves the
\* output writer as it was; SetLogOutput(w), w a writer, installs w and
\* returns no error.
C17_SetLogOutput ==
    \A i \in OutCalls :
       /\ ~hist[i].panicked
       /\ IF hist[i].arg = NilWriter
          THEN /\ Is(hist[i].ret, ErrInvalidWriter)
               /\ PostLogger(i).Out = hist[i].logger.Out
          ELSE /\ hist[i].ret = NIL
               /\ PostLogger(i).Out = hist[i].arg

\* C18: the package-level Err follows the current state of Log: for a
\* non-nil error it does not log after Log.Disable(), logs after
\* Log.Enable(), hands the log function the error wrapped in the template
\* Log.SetErrorWrap set last, and calls the function Log.SetLoggerFunc set
\* last (a function value).
C18_PkgErrFollowsLog ==
    \A i \in ErrCalls :
       LET t == LastToggle(i)
           w == LastOp("SetErrorWrap", i)
           f == LastOp("SetLoggerFunc", i)
       IN hist[i].arg # NIL =>
             /\ (t # 0 /\ hist[t].op = "Disable")
                   => (~hist[i].panicked /\ hist[i].calls = <<>>)
             /\ (t # 0 /\ hist[t].op = "Enable") => Len(hist[i].calls) = 1
             /\ (w # 0 /\ hist[i].pre.enabled)
                   => LoggedOnce(i, Processed(hist[i].arg, hist[w].arg))
             /\ (f # 0 /\ hist[i].pre.enabled /\ hist[f].arg # NilFunc)
                   => /\ Len(hist[i].calls) = 1
                      /\ hist[i].calls[1].fn = hist[f].arg

\* C20: an Err call that overlaps an Enable or Disable on the same
\* instance returns normally, calls the log function at most once, runs an
\* installed implementation, and behaves as the enabled Err or as the
\* disabled Err does.
C20_ConcurrentErrConsistent ==
    (run.rpc = "done" /\ run.overlapped)
       => /\ ~run.out.panicked
          /\ Len(run.out.calls) <= 1
          /\ run.fn \in {"noErr", "yesErr"}
          /\ run.out \in {noErr(el, run.arg), yesErr(el, run.arg)}

\* C21: an enabled Err(e), e non-nil, that overlaps a SetErrorWrap on the
\* same instance returns normally and hands the log function, once, e
\* processed with one of the templates the instance had during the call.
C21_ConcurrentWrapConsistent ==
    (run.rpc = "done" /\ run.overlapped /\ run.arg # NIL)
       => /\ ~run.out.panicked
          /\ \E w \in run.tmpls :
                run.out.calls =
                   <<[fn |-> el.logFunc, args |-> <<Processed(run.arg, w)>>]>>

CallsOn(on) == {i \in 1..Len(hist) : hist[i].on = on}

\* The default instance as call i left it.
PostLog(i) == IF i = Len(hist) THEN Log ELSE hist[i + 1].preLog

\* The setters of the collaborator's configuration.
CollabSetters == {"SetLogLevel", "SetLogOutput", "SetText", "SetJSON"}

\* The logger the instance named inst uses when the package logger is
\* lgr: NewWithOptions gives every instance the pointer log.
LoggerSeenBy(inst, lgr) == lgr

\* C23: SetLogLevel, SetText / SetJSON or the output setter called on a
\* constructed instance leaves the level, formatter and output seen by the
\* default instance (and any other instance) as they were.
C23_CollaboratorIsolated ==
    \A i \in CallsOn("el") :
       hist[i].op \in CollabSetters
          => LoggerSeenBy("Log", PostLogger(i)) = LoggerSeenBy("Log", hist[i].logger)

\* Instance e has one of the two implementations installed, the one its
\* enabled flag selects.
Consistent(e) ==
    /\ e.errFunc \in {"noErr", "yesErr"}
    /\ e.enabled <=> e.errFunc = "yesErr"

\* C24: in every state reached from a constructor by completed operations
\* the function Err invokes is the no-op or the active implementation,
\* never neither, and it is the active one exactly when enabled is true.
C24_OneImplementationInstalled ==
    /\ Consistent(el)
    /\ \A i \in 1..Len(hist) : Consistent(hist[i].pre)

\* C24 witness: an instance built enabled has been disabled, reconfigured
\* and enabled again.
C24_Witness ==
    /\ Len(hist) = 3
    /\ ctor.enabled
    /\ hist[1].op = "Disable" /\ hist[2].op = "SetLoggerFunc"
    /\ hist[3].op = "Enable"

\* C25: after an Enable() and a Disable() that ran concurrently on one
\* instance have both returned, the enabled flag and the installed
\* implementation agree.
C25_ConcurrentTogglesAgree ==
    (run.apc = "returned" /\ run.bpc = "returned" /\ run.overlapped)
       => Consistent(el)

\* The last Len(err) nodes of the chain v are err: v is err, or wrappers
\* around err itself.
EndsIn(v, err) ==
    /\ Len(v) >= Len(err)
    /\ SubSeq(v, Len(v) - Len(err) + 1, Len(v)) = err

LastElOp(op, i) ==
    LET js == {j \in 1..(i - 1) : hist[j].on = "el" /\ hist[j].op = op}
    IN IF js = {} THEN 0 ELSE CHOOSE j \in js : \A m \in js : m <= j

\* Enable and Disable on el leave its configuration and the logger alone.
TogglesKeepConfig ==
    \A i \in CallsOn("el") :
       hist[i].op \in {"Enable", "Disable"}
          => /\ Post(i).wrap = hist[i].pre.wrap
             /\ Post(i).logFunc = hist[i].pre.logFunc
             /\ PostLogger(i) = hist[i].logger

\* The setters on el leave its switch alone.
SettersKeepSwitch ==
    \A i \in CallsOn("el") :
       hist[i].op \in {"SetErrorWrap", "SetLoggerFunc"} \cup CollabSetters
          => /\ Post(i).enabled = hist[i].pre.enabled
             /\ Post(i).errFunc = hist[i].pre.errFunc

\* Err call k on el, with a non-nil error, runs enabled, and setter call m
\* was made on el while it was disabled.
EnabledAfterSetWhileOff(m, k) ==
    /\ m # 0
    /\ ~hist[m].pre.enabled
    /\ hist[k].pre.enabled
    /\ hist[k].arg # NIL

\* C27: Enable and Disable leave the wrap template, the log function and
\* the logger's level and formatter unchanged; the setters leave the
\* enabled state unchanged; a log function (a function value) or a
\* template set while disabled is the one Err uses after the next Enable.
C27_SwitchAndConfigIndependent ==
    /\ TogglesKeepConfig
    /\ SettersKeepSwitch
    /\ \A k \in CallsOn("el") :
          hist[k].op = "Err" =>
             LET f == LastElOp("SetLoggerFunc", k)
                 w == LastElOp("SetErrorWrap", k)
             IN /\ (EnabledAfterSetWhileOff(f, k) /\ hist[f].arg # NilFunc)
                      => /\ Len(hist[k].calls) = 1
                         /\ hist[k].calls[1].fn = hist[f].arg
                /\ EnabledAfterSetWhileOff(w, k)
                      => LoggedOnce(k, Processed(hist[k].arg, hist[w].arg))

\* The reference implementation: its state is the flag, the template and
\* the log function, and its Err branches on the flag at every call.
RefNew == [enabled |-> ctor.enabled, wrap |-> ctor.wrap, logFunc |-> ctor.fn]

RefErr(r, err) ==
    IF r.enabled /\ err # NIL
    THEN LET v == Processed(err, r.wrap)
         IN IF r.logFunc = NilFunc
            THEN Panicked
            ELSE Returned(v, <<[fn |-> r.logFunc, args |-> <<v>>]>>)
    ELSE Returned(err, <<>>)

\* The reference state after the first n operations of the history.
RECURSIVE RefAfter(_)
RefAfter(n) ==
    IF n = 0 THEN RefNew
    ELSE LET r == RefAfter(n - 1)
             c == hist[n]
         IN CASE c.op = "Enable" -> [r EXCEPT !.enabled = TRUE]
              [] c.op = "Disable" -> [r EXCEPT !.enabled = FALSE]
              [] c.op = "SetErrorWrap" -> [r EXCEPT !.wrap = c.arg]
              [] c.op = "SetLoggerFunc" -> [r EXCEPT !.logFunc = c.arg]
              [] OTHER -> r

\* C28: for every sequence of Enable, Disable, SetErrorWrap, SetLoggerFunc
\* and Err calls from the same constructor call, each Err of the
\* function-swap implementation has the outcome (value returned or panic,
\* log-function calls and their arguments) of the reference implementation
\* that branches on the enabled flag.
C28_SwapEqualsBranch ==
    \A i \in ErrCalls :
       [ret |-> hist[i].ret, panicked |-> hist[i].panicked,
        calls |-> hist[i].calls] = RefErr(RefAfter(i - 1), hist[i].arg)

\* C28 witness: an Err call that logged, a Disable, and an Err call that
\* did not.
C28_Witness ==
    /\ Len(hist) = 3
    /\ hist[1].op = "Err" /\ hist[1].calls # <<>>
    /\ hist[2].op = "Disable"
    /\ hist[3].op = "Err" /\ hist[3].arg # NIL /\ hist[3].calls = <<>>

\* The operations on the switch state of an instance.
SwitchOps == {"Enable", "Disable", "SetErrorWrap", "SetLoggerFunc"}

\* C29: Enable, Disable, SetErrorWrap and SetLoggerFunc on one instance
\* leave the other instance (the constructed one, the default one) as it
\* was, and with it what its Err returns and logs for every error.
C29_SwitchPerInstance ==
    \A i \in 1..Len(hist) :
       hist[i].op \in SwitchOps =>
          /\ hist[i].on = "el"
                => /\ PostLog(i) = hist[i].preLog
                   /\ \A err \in Errors :
                         Err(PostLog(i), err) = Err(hist[i].preLog, err)
          /\ hist[i].on = "Log"
                => /\ Post(i) = hist[i].pre
                   /\ \A err \in Errors :
                         Err(Post(i), err) = Err(hist[i].pre, err)

\* C29 witness: the constructed instance was disabled, the default
\* instance then logged, and was disabled in its turn.
C29_Witness ==
    /\ Len(hist) = 3
    /\ hist[1].on = "el" /\ hist[1].op = "Disable" /\ hist[1].pre.enabled
    /\ hist[2].on = "Log" /\ hist[2].op = "Err" /\ hist[2].calls # <<>>
    /\ hist[3].on = "Log" /\ hist[3].op = "Disable"

\* The name of InstLevels that is no level name.
bogus == <<"b", "o", "g", "u", "s">>

\* Call i is a SetLogLevel or a SetLogOutput on el that fails.
FailedSetter(i) ==
    /\ hist[i].on = "el"
    /\ \/ hist[i].op = "SetLogLevel" /\ hist[i].arg = bogus
       \/ hist[i].op = "SetLogOutput" /\ hist[i].arg = NilWriter

\* The error of the failed setter call i.
SetterError(i) ==
    IF hist[i].op = "SetLogLevel" THEN ParseError(hist[i].arg) ELSE ErrInvalidWriter

\* C30: a failed SetLogLevel or SetLogOutput on a constructed instance is
\* logged exactly when the default instance is enabled, by the default
\* instance's log function and with its template, whether the instance
\* called is enabled or disabled.
C30_SetterErrorsThroughDefault ==
    \A i \in 1..Len(hist) :
       FailedSetter(i) =>
          /\ Logged(i) <=> hist[i].preLog.enabled
          /\ hist[i].preLog.enabled
                => hist[i].calls =
                      <<[fn |-> hist[i].preLog.logFunc,
                         args |-> <<Processed(SetterError(i),
                                              hist[i].preLog.wrap)>>]>>

-----------------------------------------------------------------------------
(* MutexEnable                                                             *)

\* The goroutines between a returned Lock() and its Unlock().
Inside == {p \in Procs : run.pc[p] = "in"}

\* The last toggle to return was op, and no toggle is under way.
Switched(op) == run.tpc = "idle" /\ run.lastDone = op

\* p calls Lock() in this step.
LockCalled(p) == run.pc[p] = "out" /\ run'.pc[p] # "out"

\* p calls Unlock() in this step.
UnlockCalled(p) == run.pc[p] = "in" /\ run'.pc[p] # "in"

\* A Lock() or Unlock() called after Disable() returned leaves the mutex
\* alone and returns.
DisabledIsInert ==
    \A p \in Procs :
       Switched("Disable") /\ (LockCalled(p) \/ UnlockCalled(p)) =>
          /\ run'.mw.lock = run.mw.lock
          /\ run'.pc[p] \in {"in", "out"}

\* C31: on a MutexEnable that has been enabled and never disabled, at most
\* one goroutine is between a returned Lock() and its Unlock(), whatever the
\* interleaving; and a Lock() or Unlock() called after Disable() returned
\* neither touches the underlying mutex nor blocks.
C31_ExclusionWhileEnabled ==
    /\ [](~run.everDisabled => Cardinality(Inside) <= 1)
    /\ [][DisabledIsInert]_vars

\* Both cases happened: before any Disable() a Lock() blocked on the mutex
\* another goroutine held, and after Disable() returned both goroutines are
\* past their Lock() with the mutex free.
C31_Witness ==
    /\ run.contended
    /\ Switched("Disable")
    /\ Inside = Procs
    /\ \A p \in Procs : run.how[p] = "noop"
    /\ ~run.mw.lock

\* An Unlock() called while disabled by the goroutine that holds the mutex
\* does nothing: it returns and the mutex stays locked.
HolderUnlockIsNoOp ==
    \A p \in Procs :
       UnlockCalled(p) /\ run.owner = p /\ Switched("Disable") =>
          /\ run'.pc[p] = "out"
          /\ run.mw.lock /\ run'.mw.lock

\* C32 (as stated): if Disable() is called while a goroutine holds the
\* MutexEnable, that holder's Unlock() is a no-op and the mutex stays
\* locked; after a later Enable(), every Lock() blocks, and never returns.
\* Stated for the runs in which no call overlaps a toggle, and for as long
\* as no further toggle is called.
C32_LockBlocksForever ==
    [][/\ HolderUnlockIsNoOp
       /\ \A p \in Procs :
             run.lost /\ ~run.raced =>
                /\ LockCalled(p) => run'.pc[p] = "blocked"
                /\ run.pc[p] = "blocked" => run'.pc[p] = "blocked"
      ]_vars

\* The mutex was left locked by its holder's no-op Unlock(), an Enable() has
\* returned since, and the mutex has not been released.
Orphaned == run.lost /\ run.owner = "gone"

\* C32 (amended): the holder's Unlock() is a no-op and the mutex stays
\* locked; after a later Enable(), every Lock() blocks for as long as the
\* mutex stays locked, and the only call that releases it is an Unlock() by
\* a goroutine that does not hold it.
C32_LockBlocksUntilForeignUnlock ==
    [][/\ HolderUnlockIsNoOp
       /\ \A p \in Procs :
             /\ Orphaned /\ LockCalled(p) => run'.pc[p] = "blocked"
             /\ Orphaned /\ run.pc[p] = "blocked" /\ run'.owner = "gone"
                   => run'.pc[p] = "blocked"
       /\ Orphaned /\ run'.owner # "gone"
             => \E q \in Procs : UnlockCalled(q) /\ ~run'.mw.lock
      ]_vars

\* After the holder's no-op Unlock() and a later Enable(), a Lock() is
\* blocked on the mutex that nobody holds.
C32_Witness ==
    /\ Orphaned
    /\ ~run.raced
    /\ run.mw.lock
    /\ \E p \in Procs : run.pc[p] = "blocked"

\* p calls the Unlock() that matches a Lock() which was a no-op, and
\* Enable() has returned in between.
StraddlingUnlock(p) ==
    UnlockCalled(p) /\ run.how[p] = "noop" /\ Switched("Enable")

\* C33 (as stated): if Lock() is called while the MutexEnable is disabled
\* and Enable() is called before the matching Unlock(), that Unlock()
\* releases a mutex that is not held, a runtime failure.  Stated for the
\* runs in which no call overlaps a toggle.
C33_UnlockAfterEnableFails ==
    [][\A p \in Procs :
          StraddlingUnlock(p) /\ ~run.raced => ~run.mw.lock /\ run'.fatal
      ]_vars

\* C33 (amended): that Unlock() runs the real unlock for a caller that never
\* acquired the mutex: a runtime failure if the mutex is free, and otherwise
\* the release of a mutex its caller does not hold.
C33_UnlockAfterEnableIsForeign ==
    [][\A p \in Procs :
          StraddlingUnlock(p) =>
             /\ run.owner # p
             /\ IF run.mw.lock
                THEN ~run'.mw.lock /\ ~run'.fatal /\ run'.pc[p] = "out"
                ELSE run'.fatal /\ run'.pc[p] = "fatal"
      ]_vars

\* The runtime failure happened: an Unlock() after Enable(), matching a
\* Lock() that was a no-op, found the mutex free.
C33_Witness ==
    /\ run.fatal
    /\ ~run.raced
    /\ Switched("Enable")
    /\ \E p \in Procs : run.pc[p] = "fatal" /\ run.how[p] = "noop"

\* C34: a MutexEnable started by Enable() and a MutexWrap started from its
\* zero value behave alike: after every step of every sequence of Lock,
\* Unlock and Disable calls made on both, the two underlying mutexes are
\* both locked or both free, each call has ended the same way on both
\* (returned, blocked, or failed), and the same goroutines are blocked.
C34_SwapEqualsFlag ==
    /\ run.mw.lock = run.wrap.lock
    /\ run.outE = run.outW
    /\ run.stE = run.stW

\* After Disable(), the holder's Unlock() has returned on both with both
\* mutexes still locked and another goroutine blocked on both.
C34_Witness ==
    /\ run.wrap.disabled /\ run.mw.fnLock = "noLock"
    /\ run.op = "Unlock" /\ run.outE = "returns" /\ run.outW = "returns"
    /\ run.mw.lock /\ run.wrap.lock
    /\ \E p \in Procs : run.stE[p] = "blocked" /\ run.stW[p] = "blocked"

\* The calls made so far on the value named on.
ZeroCalls(on) == {i \in 1..Len(hist) : hist[i].on = on}

\* Enable() or Disable() was called on that value before call i.
ToggledBefore(on, i) ==
    \E j \in ZeroCalls(on) : j < i /\ hist[j].op \in {"Enable", "Disable"}

\* The implementations installed in a MutexEnable: none, or one pair.
NoLockInstalled(mw) == mw.fnLock = NilFunc /\ mw.fnUnlock = NilFunc

OneLockInstalled(mw) ==
    \/ mw.fnLock = "yesLock" /\ mw.fnUnlock = "yesUnlock"
    \/ mw.fnLock = "noLock" /\ mw.fnUnlock = "noUnlock"

\* C35: on a MutexEnable on which neither Enable() nor Disable() has been
\* called no lock or unlock implementation is installed and Lock() and
\* Unlock() fail; on an errorLogger that no constructor produced and on
\* which neither has been called no error function is installed and Err
\* fails; from the first Enable() or Disable() on, and only then, exactly
\* one implementation is installed.
C35_UnsetUntilToggled ==
    /\ \A i \in ZeroCalls("mw") :
          IF ToggledBefore("mw", i)
          THEN OneLockInstalled(hist[i].pre)
          ELSE /\ NoLockInstalled(hist[i].pre)
               /\ hist[i].op \in {"Lock", "Unlock"} => hist[i].out = "panics"
    /\ \A i \in ZeroCalls("el") :
          IF ToggledBefore("el", i)
          THEN hist[i].pre.errFunc \in {"noErr", "yesErr"}
          ELSE /\ hist[i].pre.errFunc = NilFunc
               /\ hist[i].op = "Err" => hist[i].out = "panics"
    /\ IF ToggledBefore("mw", Len(hist) + 1)
       THEN OneLockInstalled(run.mw) ELSE NoLockInstalled(run.mw)
    /\ IF ToggledBefore("el", Len(hist) + 1)
       THEN el.errFunc \in {"noErr", "yesErr"} ELSE el.errFunc = NilFunc

\* Lock() on the untouched MutexEnable and Err on the untouched errorLogger
\* have both failed, and a first toggle has since installed an
\* implementation.
C35_Witness ==
    /\ \E i \in ZeroCalls("mw") : hist[i].op = "Lock" /\ hist[i].out = "panics"
    /\ \E i \in ZeroCalls("el") : hist[i].op = "Err" /\ hist[i].out = "panics"
    /\ \/ OneLockInstalled(run.mw)
       \/ el.errFunc \in {"noErr", "yesErr"}

-----------------------------------------------------------------------------
(* What remains of the claims that a nil log function breaks, on an       *)
(* instance whose log function is set                                      *)

\* Err call i ran with a log function installed.
HasLogFunc(i) == hist[i].pre.logFunc # NilFunc

WithLogFunc_C4 ==
    \A i \in ErrCalls :
       (HasLogFunc(i) /\ hist[i].pre.enabled /\ hist[i].pre.wrap = NIL
          /\ hist[i].arg # NIL)
          => LoggedOnce(i, hist[i].arg)

WithLogFunc_C5 ==
    \A i \in ErrCalls :
       (HasLogFunc(i) /\ hist[i].pre.enabled /\ hist[i].pre.wrap # NIL
          /\ hist[i].arg # NIL)
          => /\ Len(hist[i].calls) = 1
             /\ Len(hist[i].calls[1].args) = 1
             /\ LET v == hist[i].calls[1].args[1]
                IN /\ Is(v, hist[i].arg)
                   /\ v # hist[i].arg
                   /\ ErrorMsg(v) = ErrorMsg(hist[i].pre.wrap) \o ": "
                                       \o ErrorMsg(hist[i].arg)

WithLogFunc_C9 ==
    \A i \in ErrCalls :
       (HasLogFunc(i) /\ hist[i].arg # NIL /\ LastToggle(i) # 0)
          => (Logged(i) <=> hist[LastToggle(i)].op = "Enable")

WithLogFunc_C10 ==
    /\ (ctor.name = "New" /\ hist = <<>>) => el.enabled
    /\ (1 \in ErrCalls /\ HasLogFunc(1) /\ hist[1].arg # NIL)
          => (Logged(1) <=> ctor.enabled)

WithLogFunc_C14 ==
    \A i \in ErrCalls :
       LET j == LastOp("SetErrorWrap", i) IN
       (j # 0 /\ HasLogFunc(i) /\ hist[i].pre.enabled /\ hist[i].arg # NIL)
          => LoggedOnce(i, Processed(hist[i].arg, hist[j].arg))

\* A name logrus.ParseLevel knows beyond the documented seven.
IsWarning(lvl) == ToLower(lvl) = <<"w", "a", "r", "n", "i", "n", "g">>

\* SetLogLevel with a name ParseLevel rejects leaves the level as it was,
\* and returns the invalid-level error unless Log.Err panics.
WithLogFunc_C16 ==
    (last.op = "SetLogLevel"
       /\ \A n \in LevelNames : last.arg \notin Casings(n))
       => /\ (log.Level = last.logger.Level \/ IsWarning(last.arg))
          /\ ((~IsWarning(last.arg)
                 /\ (last.pre.logFunc # NilFunc \/ ~last.pre.enabled))
                => (~last.panicked /\ Is(last.ret, ParseError(last.arg))))

\* Package-level call i found Log disabled or with a log function.
LogCanErr(i) == ~hist[i].pre.enabled \/ hist[i].pre.logFunc # NilFunc

WithLogFunc_C17 ==
    \A i \in OutCalls :
       /\ hist[i].arg # NilWriter
             => /\ ~hist[i].panicked
                /\ hist[i].ret = NIL
                /\ PostLogger(i).Out = hist[i].arg
       /\ hist[i].arg = NilWriter
             => /\ PostLogger(i).Out = hist[i].logger.Out
                /\ LogCanErr(i)
                      => /\ ~hist[i].panicked
                         /\ Is(hist[i].ret, ErrInvalidWriter)

WithLogFunc_C18 ==
    \A i \in ErrCalls :
       LET t == LastToggle(i)
           w == LastOp("SetErrorWrap", i)
           f == LastOp("SetLoggerFunc", i)
       IN hist[i].arg # NIL =>
             /\ (t # 0 /\ hist[t].op = "Disable")
                   => (~hist[i].panicked /\ hist[i].calls = <<>>)
             /\ (t # 0 /\ hist[t].op = "Enable" /\ HasLogFunc(i))
                   => Len(hist[i].calls) = 1
             /\ (w # 0 /\ hist[i].pre.enabled /\ HasLogFunc(i))
                   => LoggedOnce(i, Processed(hist[i].arg, hist[w].arg))
             /\ (f # 0 /\ hist[i].pre.enabled /\ hist[f].arg # NilFunc)
                   => /\ Len(hist[i].calls) = 1
                      /\ hist[i].calls[1].fn = hist[f].arg

\* An Err that overlaps a toggle, fetched an implementation whose closure
\* it sees, and has a log function to call, behaves entirely as enabled or
\* entirely as disabled.
WithLogFunc_C20 ==
    (run.rpc = "done" /\ run.overlapped /\ run.fn # "unpublished"
       /\ el.logFunc # NilFunc)
       => /\ ~run.out.panicked
          /\ Len(run.out.calls) <= 1
          /\ run.fn \in {"noErr", "yesErr"}
          /\ run.out \in {noErr(el, run.arg), yesErr(el, run.arg)}

\* An Err that overlaps a SetErrorWrap, loaded e.wrap untorn, did not find
\* it nil at its use, and has a log function, hands it the error processed
\* with one of the templates of the call.
WithLogFunc_C21 ==
    (run.rpc = "done" /\ run.overlapped /\ run.arg # NIL /\ ~run.torn
       /\ el.logFunc # NilFunc)
       => \/ run.out.panicked /\ NIL \in run.tmpls
          \/ /\ ~run.out.panicked
             /\ \E w \in run.tmpls :
                   run.out.calls =
                      <<[fn |-> el.logFunc,
                         args |-> <<Processed(run.arg, w)>>]>>

\* An Enable() and a Disable() of which one started after the other had
\* returned leave the flag and the implementation in agreement.
Serial_C25 ==
    (run.apc = "returned" /\ run.bpc = "returned" /\ ~run.overlapped)
       => Consistent(el)

WithLogFunc_C27 ==
    /\ TogglesKeepConfig
    /\ SettersKeepSwitch
    /\ \A k \in CallsOn("el") :
          hist[k].op = "Err" =>
             LET f == LastElOp("SetLoggerFunc", k)
                 w == LastElOp("SetErrorWrap", k)
             IN /\ (EnabledAfterSetWhileOff(f, k) /\ hist[f].arg # NilFunc)
                      => /\ Len(hist[k].calls) = 1
                         /\ hist[k].calls[1].fn = hist[f].arg
                /\ (EnabledAfterSetWhileOff(w, k) /\ HasLogFunc(k))
                      => LoggedOnce(k, Processed(hist[k].arg, hist[w].arg))

WithLogFunc_C30 ==
    \A i \in 1..Len(hist) :
       (FailedSetter(i) /\ hist[i].preLog.logFunc # NilFunc) =>
          /\ ~hist[i].panicked
          /\ Logged(i) <=> hist[i].preLog.enabled
          /\ hist[i].preLog.enabled
                => hist[i].calls =
                      <<[fn |-> hist[i].preLog.logFunc,
                         args |-> <<Processed(SetterError(i),
                                              hist[i].preLog.wrap)>>]>>

====
